---- MODULE Spec2Model ----
(***************************************************************************)
(* The BMI calculator page (client/src/pages/bmi-calculator.tsx) with its  *)
(* validation schema (shared/schema.ts).                                   *)
(*                                                                         *)
(* State: the react-hook-form values (watchedValues), the React state      *)
(* `result`, and a history variable `calls` that records the arguments of  *)
(* every run of the BMI computation made during the last step.             *)
(*                                                                         *)
(* Numbers: a JavaScript number is a record [tag, n, d]; tag "number" is   *)
(* the exact rational n/d (with a sign), and NaN, Infinity and undefined   *)
(* are tags of their own.  The rounding of IEEE-754 doubles      *)
(* (relative error at most 2^-53 per operation) is not modelled: the       *)
(* arithmetic below is the exact value the doubles approximate, and the    *)
(* properties that compare computed values do so within a stated           *)
(* tolerance.                                                              *)
(***************************************************************************)
EXTENDS Integers, Sequences, FiniteSets, TLC

VARIABLES watchedValues, result, calls

vars == <<watchedValues, result, calls>>

----------------------------------------------------------------------------
(* Natural numbers of any size: TLC's integers are 32 bits wide and the    *)
(* exact quotients below are not.  A natural is the sequence of its digits *)
(* in base Base, lowest first, without leading zeros; zero is <<>>.        *)

Base == 10^4

RECURSIVE BFromInt(_)
BFromInt(i) == IF i = 0 THEN <<>> ELSE <<i % Base>> \o BFromInt(i \div Base)

\* The digits of the number whose i-th digit sum is s[i], from digit i on,
\* with carry c.
RECURSIVE BCarry(_, _, _)
BCarry(s, i, c) ==
    IF i > Len(s) THEN BFromInt(c)
    ELSE <<(s[i] + c) % Base>> \o BCarry(s, i + 1, (s[i] + c) \div Base)

BDigit(a, i) == IF i <= Len(a) THEN a[i] ELSE 0

BAdd(a, b) ==
    LET m == IF Len(a) < Len(b) THEN Len(b) ELSE Len(a)
    IN  BCarry([k \in 1..m |-> BDigit(a, k) + BDigit(b, k)], 1, 0)

\* The k-th digit sum of a * b: the products a[i] * b[k + 1 - i], from i on.
RECURSIVE BConv(_, _, _, _)
BConv(a, b, k, i) ==
    IF i > Len(a) \/ i > k THEN 0
    ELSE (IF k + 1 - i <= Len(b) THEN a[i] * b[k + 1 - i] ELSE 0)
            + BConv(a, b, k, i + 1)

BMul(a, b) ==
    IF a = <<>> \/ b = <<>> THEN <<>>
    ELSE IF Len(a) = 1 /\ Len(b) = 1 THEN BFromInt(a[1] * b[1])
    ELSE BCarry([k \in 1..(Len(a) + Len(b) - 1) |-> BConv(a, b, k, 1)], 1, 0)

\* -1, 0 or 1 as a < b, a = b or a > b, comparing from digit i down.
RECURSIVE BCmpFrom(_, _, _)
BCmpFrom(a, b, i) ==
    IF i = 0 THEN 0
    ELSE IF a[i] < b[i] THEN -1
    ELSE IF a[i] > b[i] THEN 1
    ELSE BCmpFrom(a, b, i - 1)

BCmp(a, b) ==
    IF Len(a) < Len(b) THEN -1
    ELSE IF Len(a) > Len(b) THEN 1
    ELSE BCmpFrom(a, b, Len(a))

\* The largest t in lo..hi with t * b <= a, for b > 0 and lo * b <= a.
RECURSIVE BQuot(_, _, _, _)
BQuot(a, b, lo, hi) ==
    IF lo = hi THEN lo
    ELSE LET mid == lo + ((hi - lo + 1) \div 2)
         IN  IF BCmp(BMul(BFromInt(mid), b), a) <= 0
             THEN BQuot(a, b, mid, hi)
             ELSE BQuot(a, b, lo, mid - 1)

----------------------------------------------------------------------------
(* JavaScript numbers                                                      *)

Abs(i) == IF i < 0 THEN -i ELSE i

RECURSIVE GCD(_, _)
GCD(a, b) == IF b = 0 THEN a ELSE GCD(b, a % b)

\* The number n/d (integers, d > 0) as typed or written in the source: in
\* lowest terms.  Products and quotients are exact and are not reduced.
Num(n, d) ==
    LET g == GCD(Abs(n), d)
    IN  [tag |-> "number", neg |-> n < 0,
         n |-> BFromInt(Abs(n) \div g), d |-> BFromInt(d \div g)]

NaN == [tag |-> "NaN", neg |-> FALSE, n |-> <<>>, d |-> <<1>>]
Infinity == [tag |-> "Infinity", neg |-> FALSE, n |-> <<1>>, d |-> <<1>>]
undefined == [tag |-> "undefined", neg |-> FALSE, n |-> <<>>, d |-> <<1>>]

IsNumber(x) == x.tag = "number"
Ordered(x) == x.tag \in {"number", "Infinity"}

\* -1, 0 or 1 as x < y, x = y or x > y, for numbers and infinities.
Cmp(x, y) ==
    IF x.tag = "Infinity" \/ y.tag = "Infinity"
    THEN LET rank(v) == IF IsNumber(v) THEN 0 ELSE IF v.neg THEN -1 ELSE 1
         IN  IF rank(x) < rank(y) THEN -1 ELSE IF rank(x) > rank(y) THEN 1 ELSE 0
    ELSE IF x.neg /\ ~y.neg THEN -1
    ELSE IF ~x.neg /\ y.neg THEN 1
    ELSE LET c == BCmp(BMul(x.n, y.d), BMul(y.n, x.d))
         IN  IF x.neg THEN -c ELSE c

\* x < y, x > y, x >= y, x <= y and x === y of JavaScript: false as soon as
\* an operand is NaN (or undefined, which converts to NaN).
Lt(x, y) == Ordered(x) /\ Ordered(y) /\ Cmp(x, y) < 0
Gt(x, y) == Lt(y, x)
Ge(x, y) == Ordered(x) /\ Ordered(y) /\ Cmp(x, y) >= 0
Le(x, y) == Ge(y, x)
Eq(x, y) == Ordered(x) /\ Ordered(y) /\ Cmp(x, y) = 0

IsZero(x) == IsNumber(x) /\ x.n = <<>>

\* x * y of JavaScript.
Mul(x, y) ==
    IF IsNumber(x) /\ IsNumber(y)
    THEN IF IsZero(x) \/ IsZero(y) THEN Num(0, 1)
         ELSE [tag |-> "number", neg |-> x.neg # y.neg,
               n |-> BMul(x.n, y.n), d |-> BMul(x.d, y.d)]
    ELSE IF Ordered(x) /\ Ordered(y) /\ ~IsZero(x) /\ ~IsZero(y)
    THEN [Infinity EXCEPT !.neg = (x.neg # y.neg)]
    ELSE NaN

\* x / y of JavaScript: a nonzero number over zero is an infinity, zero over
\* zero is NaN.
Div(x, y) ==
    IF IsNumber(x) /\ IsNumber(y)
    THEN IF IsZero(y) THEN (IF IsZero(x) THEN NaN
                            ELSE [Infinity EXCEPT !.neg = x.neg])
         ELSE IF IsZero(x) THEN Num(0, 1)
         ELSE [tag |-> "number", neg |-> x.neg # y.neg,
               n |-> BMul(x.n, y.d), d |-> BMul(x.d, y.n)]
    ELSE IF x.tag = "Infinity" /\ IsNumber(y)
    THEN [Infinity EXCEPT !.neg = (x.neg # y.neg)]
    ELSE IF IsNumber(x) /\ y.tag = "Infinity" THEN Num(0, 1)
    ELSE NaN

\* The truthiness of a number in `a && b`: 0, NaN and undefined are falsy.
Truthy(x) == Ordered(x) /\ ~IsZero(x)

\* Display strings hold at most MaxShown tenths.
MaxShown == 10^9

\* x.toFixed(1) of a number 0 <= x < MaxShown / 10: the decimal string "i.f"
\* as [int, frac], the tenth nearest to x, the larger one on a tie.
toFixed1(x) ==
    LET t == BQuot(BAdd(BMul(BFromInt(20), x.n), x.d),
                   BMul(BFromInt(2), x.d), 0, MaxShown)
    IN  [int |-> t \div 10, frac |-> t % 10]

----------------------------------------------------------------------------
(* shared/schema.ts                                                        *)

MinAge == 1
MaxAge == 120
\* .min(0.1) of height and weight
MinMeasure == Num(1, 10)

HeightUnits == {"cm", "ft"}
WeightUnits == {"kg", "lbs"}

\* bmiCalculationSchema.safeParse(data).success: z.number() rejects
\* undefined and NaN; min and max are inclusive.
bmiCalculationSchema(data) ==
    /\ IsNumber(data.age)
    /\ Ge(data.age, Num(MinAge, 1))
    /\ Le(data.age, Num(MaxAge, 1))
    /\ IsNumber(data.height)
    /\ Ge(data.height, MinMeasure)
    /\ IsNumber(data.weight)
    /\ Ge(data.weight, MinMeasure)
    /\ data.heightUnit \in HeightUnits
    /\ data.weightUnit \in WeightUnits

----------------------------------------------------------------------------
(* client/src/pages/bmi-calculator.tsx                                     *)

\* 0.3048 and 0.453592
FeetToMeters == Num(3048, 10000)
PoundsToKg == Num(453592, 1000000)
Hundred == Num(100, 1)

defaultValues ==
    [age |-> undefined, height |-> undefined, weight |-> undefined,
     heightUnit |-> "cm", weightUnit |-> "kg"]

\* Mutant: the feet factor mistyped.
convertHeight_typo(value, unit) ==
    IF unit = "ft" THEN Mul(value, Num(3084, 10000))
    ELSE Div(value, Hundred)

convertHeight(value, unit) ==
    IF unit = "ft" THEN Mul(value, FeetToMeters)
    ELSE Div(value, Hundred)

\* Mutant: pounds taken for kilograms.
convertWeight_noPounds(value, unit) == value

convertWeight(value, unit) ==
    IF unit = "lbs" THEN Mul(value, PoundsToKg)
    ELSE value

Threshold185 == Num(185, 10)
Threshold25 == Num(25, 1)
Threshold30 == Num(30, 1)

\* Mutant: the boundaries given to the lower category (<= for <).
getBMICategory_exclusive(bmi) ==
    IF Le(bmi, Threshold185)
    THEN [category |-> "Underweight",
          description |-> "You may need to gain weight. Consider consulting a healthcare provider.",
          color |-> "text-blue-600"]
    ELSE IF Gt(bmi, Threshold185) /\ Le(bmi, Threshold25)
    THEN [category |-> "Normal Weight",
          description |-> "You have a healthy body weight. Keep up the good work!",
          color |-> "text-green-600"]
    ELSE IF Gt(bmi, Threshold25) /\ Le(bmi, Threshold30)
    THEN [category |-> "Overweight",
          description |-> "You may want to consider losing some weight for better health.",
          color |-> "text-yellow-600"]
    ELSE [category |-> "Obese",
          description |-> "Consider consulting a healthcare provider for a weight management plan.",
          color |-> "text-red-600"]

\* Mutant: the Overweight branch pasted with the color of Obese.
getBMICategory_sameColor(bmi) ==
    IF Lt(bmi, Threshold185)
    THEN [category |-> "Underweight",
          description |-> "You may need to gain weight. Consider consulting a healthcare provider.",
          color |-> "text-blue-600"]
    ELSE IF Ge(bmi, Threshold185) /\ Lt(bmi, Threshold25)
    THEN [category |-> "Normal Weight",
          description |-> "You have a healthy body weight. Keep up the good work!",
          color |-> "text-green-600"]
    ELSE IF Ge(bmi, Threshold25) /\ Lt(bmi, Threshold30)
    THEN [category |-> "Overweight",
          description |-> "You may want to consider losing some weight for better health.",
          color |-> "text-red-600"]
    ELSE [category |-> "Obese",
          description |-> "Consider consulting a healthcare provider for a weight management plan.",
          color |-> "text-red-600"]

getBMICategory(bmi) ==
    IF Lt(bmi, Threshold185)
    THEN [category |-> "Underweight",
          description |-> "You may need to gain weight. Consider consulting a healthcare provider.",
          color |-> "text-blue-600"]
    ELSE IF Ge(bmi, Threshold185) /\ Lt(bmi, Threshold25)
    THEN [category |-> "Normal Weight",
          description |-> "You have a healthy body weight. Keep up the good work!",
          color |-> "text-green-600"]
    ELSE IF Ge(bmi, Threshold25) /\ Lt(bmi, Threshold30)
    THEN [category |-> "Overweight",
          description |-> "You may want to consider losing some weight for better health.",
          color |-> "text-yellow-600"]
    ELSE [category |-> "Obese",
          description |-> "Consider consulting a healthcare provider for a weight management plan.",
          color |-> "text-red-600"]

\* { bmi, ...categoryInfo }
BMIResult(bmi, categoryInfo) ==
    [bmi |-> bmi, category |-> categoryInfo.category,
     description |-> categoryInfo.description, color |-> categoryInfo.color]

\* The value onSubmit(data) passes to setResult.
onSubmit(data) ==
    LET heightInMeters == convertHeight(data.height, data.heightUnit)
        weightInKg == convertWeight(data.weight, data.weightUnit)
        bmi == Div(weightInKg, Mul(heightInMeters, heightInMeters))
    IN  BMIResult(bmi, getBMICategory(bmi))

\* Mutant: the upper age bound exclusive.
effectGuard_strictAge(v) ==
    /\ Truthy(v.age) /\ Truthy(v.height) /\ Truthy(v.weight)
    /\ Ge(v.age, Num(1, 1)) /\ Lt(v.age, Num(120, 1))
    /\ Gt(v.height, Num(0, 1)) /\ Gt(v.weight, Num(0, 1))

\* Mutant: the weight left out of the condition.
effectGuard_noWeight(v) ==
    /\ Truthy(v.age) /\ Truthy(v.height)
    /\ Ge(v.age, Num(1, 1)) /\ Le(v.age, Num(120, 1))
    /\ Gt(v.height, Num(0, 1))

\* The condition of the real-time calculation effect.
effectGuard(v) ==
    /\ Truthy(v.age) /\ Truthy(v.height) /\ Truthy(v.weight)
    /\ Ge(v.age, Num(1, 1)) /\ Le(v.age, Num(120, 1))
    /\ Gt(v.height, Num(0, 1)) /\ Gt(v.weight, Num(0, 1))

\* Mutant: the bmi scaled by the age (an "age-adjusted" bmi).
effectResult_ageAdjusted(v) ==
    LET heightInMeters == convertHeight(v.height, v.heightUnit)
        weightInKg == convertWeight(v.weight, v.weightUnit)
        bmi == Mul(Div(weightInKg, Mul(heightInMeters, heightInMeters)),
                   Div(v.age, Num(120, 1)))
    IN  BMIResult(bmi, getBMICategory(bmi))

\* Mutant: the bmi rounded to one decimal before it is classified and stored.
effectResult_roundedFirst(v) ==
    LET heightInMeters == convertHeight(v.height, v.heightUnit)
        weightInKg == convertWeight(v.weight, v.weightUnit)
        shown == toFixed1(Div(weightInKg, Mul(heightInMeters, heightInMeters)))
        bmi == Num(10 * shown.int + shown.frac, 10)
    IN  BMIResult(bmi, getBMICategory(bmi))

\* Mutant: a result already on display is kept instead of recomputed.
effectResult_cached(v) ==
    IF result # <<>> THEN result[1]
    ELSE LET heightInMeters == convertHeight(v.height, v.heightUnit)
             weightInKg == convertWeight(v.weight, v.weightUnit)
             bmi == Div(weightInKg, Mul(heightInMeters, heightInMeters))
         IN  BMIResult(bmi, getBMICategory(bmi))

\* The value the effect passes to setResult when its condition holds.
effectResult(v) ==
    LET heightInMeters == convertHeight(v.height, v.heightUnit)
        weightInKg == convertWeight(v.weight, v.weightUnit)
        bmi == Div(weightInKg, Mul(heightInMeters, heightInMeters))
    IN  BMIResult(bmi, getBMICategory(bmi))

\* useState<BMIResult | null>(null): null is <<>>, a result r is <<r>>.
null == <<>>

\* One run of the BMI computation: the path that made it and its argument.
Call(path, data) == [path |-> path, data |-> data]

\* The render that follows a handler, and the effect that follows the render:
\* watch() hands the effect the form's values; `res` and `made` are the result
\* and the runs the handler left.
renderAndEffect(values, res, made) ==
    IF effectGuard(values)
    THEN /\ result' = <<effectResult(values)>>
         /\ calls' = Append(made, Call("effect", values))
    ELSE /\ result' = res
         /\ calls' = made

----------------------------------------------------------------------------
(* What a user can type                                                    *)

\* The values typed into the three number inputs: the values the scenarios
\* name, and a few more that a bound counts: the ages MaxAge, ... up to
\* MaxAgeOver above it, the heights 0, 100, ... (MaxHeightSteps steps) and
\* the weights 25, 50, ... (MaxWeightSteps steps).
MaxAgeOver == 1
MaxHeightSteps == 1
MaxWeightSteps == 1

\* An emptied number field reads NaN (valueAsNumber).
TypedAges ==
    {NaN, Num(0, 1), Num(51, 2)}
        \cup {Num(MaxAge + k, 1) : k \in 0..MaxAgeOver}

TypedHeights ==
    {Num(-170, 1), Num(59, 10), Num(170, 1)}
        \cup {Num(100 * k, 1) : k \in 0..MaxHeightSteps}

TypedWeights ==
    {NaN, Num(185, 10), Num(30, 1), Num(722, 10), Num(90, 1), Num(160, 1)}
        \cup {Num(25 * k, 1) : k \in 1..MaxWeightSteps}

----------------------------------------------------------------------------
(* The page                                                                *)

Init ==
    /\ watchedValues = defaultValues
    /\ result = null
    /\ calls = <<>>

\* onChange of the age, height or weight input (register, valueAsNumber).
ChangeAge(v) ==
    /\ v # watchedValues.age
    /\ watchedValues' = [watchedValues EXCEPT !.age = v]
    /\ renderAndEffect(watchedValues', result, <<>>)

ChangeHeight(v) ==
    /\ v # watchedValues.height
    /\ watchedValues' = [watchedValues EXCEPT !.height = v]
    /\ renderAndEffect(watchedValues', result, <<>>)

ChangeWeight(v) ==
    /\ v # watchedValues.weight
    /\ watchedValues' = [watchedValues EXCEPT !.weight = v]
    /\ renderAndEffect(watchedValues', result, <<>>)

\* onValueChange of the two unit selects: form.setValue.
SetHeightUnit(u) ==
    /\ u # watchedValues.heightUnit
    /\ watchedValues' = [watchedValues EXCEPT !.heightUnit = u]
    /\ renderAndEffect(watchedValues', result, <<>>)

SetWeightUnit(u) ==
    /\ u # watchedValues.weightUnit
    /\ watchedValues' = [watchedValues EXCEPT !.weightUnit = u]
    /\ renderAndEffect(watchedValues', result, <<>>)

\* The browser's own check of a number input before it fires the submit
\* event: a value off the input's step (1 when none is given, 0.1 for
\* height and weight) blocks the submission; an empty field does not.
onStep(x, perUnit) ==
    ~IsNumber(x) \/ (Len(x.d) = 1 /\ perUnit % x.d[1] = 0)

nativeValid(v) ==
    onStep(v.age, 1) /\ onStep(v.height, 10) /\ onStep(v.weight, 10)

\* form.handleSubmit(onSubmit): the resolver's verdict on the form's values;
\* onSubmit only when they pass, the errors (and a render) when they do not.
Submit ==
    /\ nativeValid(watchedValues)
    /\ UNCHANGED watchedValues
    /\ IF bmiCalculationSchema(watchedValues)
       THEN renderAndEffect(watchedValues, <<onSubmit(watchedValues)>>,
                            <<Call("submit", watchedValues)>>)
       ELSE renderAndEffect(watchedValues, result, <<>>)

\* Mutant: resetForm without its setResult(null).
resetForm_keepsResult ==
    /\ watchedValues' = defaultValues
    /\ renderAndEffect(watchedValues', result, <<>>)

\* resetForm: form.reset() and setResult(null).
resetForm ==
    /\ watchedValues' = defaultValues
    /\ renderAndEffect(watchedValues', null, <<>>)

Next ==
    \/ \E v \in TypedAges : ChangeAge(v)
    \/ \E v \in TypedHeights : ChangeHeight(v)
    \/ \E v \in TypedWeights : ChangeWeight(v)
    \/ \E u \in HeightUnits : SetHeightUnit(u)
    \/ \E u \in WeightUnits : SetWeightUnit(u)
    \/ Submit
    \/ resetForm

Spec == Init /\ [][Next]_vars

----------------------------------------------------------------------------
(* Vocabulary of the properties                                            *)

\* The four categories and the ranges the specification gives them.
Categories == {"Underweight", "Normal Weight", "Overweight", "Obese"}

RangeOf(c) ==
    CASE c = "Underweight" -> [from |-> Num(0, 1), below |-> Num(185, 10)]
      [] c = "Normal Weight" -> [from |-> Num(185, 10), below |-> Num(25, 1)]
      [] c = "Overweight" -> [from |-> Num(25, 1), below |-> Num(30, 1)]
      [] c = "Obese" -> [from |-> Num(30, 1), below |-> Infinity]

InRange(bmi, c) == Ge(bmi, RangeOf(c).from) /\ Lt(bmi, RangeOf(c).below)

\* The formula of the specification, with its conversion factors.
MetersOf(h, unit) ==
    IF unit = "cm" THEN Div(h, Num(100, 1)) ELSE Mul(h, Num(3048, 10000))

KilogramsOf(w, unit) ==
    IF unit = "kg" THEN w ELSE Mul(w, Num(453592, 1000000))

\* bmi = weightKg / heightMeters^2, stated without a division.
IsQuotient(bmi, data) ==
    Eq(Mul(bmi, Mul(MetersOf(data.height, data.heightUnit),
                    MetersOf(data.height, data.heightUnit))),
       KilogramsOf(data.weight, data.weightUnit))

Positive(x) == Gt(x, Num(0, 1))

Measured(data, h, hu, w, wu) ==
    /\ data.height = h /\ data.heightUnit = hu
    /\ data.weight = w /\ data.weightUnit = wu

\* The runs of the computation made in the step that led here.
Ran == {calls[i] : i \in 1..Len(calls)}
Paths == {c.path : c \in Ran}

----------------------------------------------------------------------------
(* C1: getBMICategory puts a BMI value into exactly one of the four        *)
(* categories, each range inclusive on its lower bound: every stored       *)
(* result's category is the one whose range [from, below) holds its bmi,   *)
(* and 100 cm with 18.5 kg is bmi 18.5 and Normal Weight, bmi 25.0 is      *)
(* Overweight and bmi 30.0 is Obese.                                       *)
C1_Classification ==
    result # null =>
        LET r == result[1]
        IN  /\ r.category \in Categories
            /\ \A c \in Categories : InRange(r.bmi, c) <=> (r.category = c)
            /\ Eq(r.bmi, Num(185, 10)) => r.category = "Normal Weight"
            /\ Eq(r.bmi, Num(25, 1)) => r.category = "Overweight"
            /\ Eq(r.bmi, Num(30, 1)) => r.category = "Obese"
            /\ \A c \in Ran :
                  Measured(c.data, Num(100, 1), "cm", Num(185, 10), "kg")
                      => Eq(r.bmi, Num(185, 10))

C1_Witness ==
    /\ result # null
    /\ Ran # {}
    /\ Measured(watchedValues, Num(100, 1), "cm", Num(185, 10), "kg")
    /\ Eq(result[1].bmi, Num(185, 10))
    /\ result[1].category = "Normal Weight"

----------------------------------------------------------------------------
(* C2: for every Measurement the computation ran on, the stored bmi is     *)
(* weightKg / heightMeters^2 (heightMeters = height / 100 for cm and       *)
(* height * 0.3048 for ft, weightKg = weight for kg and weight * 0.453592  *)
(* for lbs) and is positive; 170 cm with 90 kg is Obese, and 5.9 ft with   *)
(* 160 lbs is Normal Weight with a bmi of about `about`.                   *)
Within(x, lo, hi) == Ge(x, lo) /\ Le(x, hi)

C2_Formula(aboutLo, aboutHi) ==
    \A c \in Ran :
        /\ result # null
        /\ IsQuotient(result[1].bmi, c.data)
        /\ Positive(result[1].bmi)
        /\ Measured(c.data, Num(170, 1), "cm", Num(90, 1), "kg")
              => result[1].category = "Obese"
        /\ Measured(c.data, Num(59, 10), "ft", Num(160, 1), "lbs")
              => /\ result[1].category = "Normal Weight"
                 /\ Within(result[1].bmi, aboutLo, aboutHi)

\* As claimed: about 22.4377 (to the four decimals given).
C2_Original == C2_Formula(Num(2243765, 100000), Num(2243775, 100000))

\* As the code computes it: about 22.4415.
C2_Amended == C2_Formula(Num(2244145, 100000), Num(2244155, 100000))

C2_Witness ==
    /\ result # null
    /\ Paths = {"submit", "effect"}
    /\ Measured(watchedValues, Num(59, 10), "ft", Num(160, 1), "lbs")
    /\ result[1].category = "Normal Weight"

----------------------------------------------------------------------------
(* C3: every run of the computation, on the submit path and on the         *)
(* live-recalculation path, is on an input that satisfies the validation   *)
(* contract: age an integer in [1, 120], height > 0, weight > 0,           *)
(* heightUnit cm or ft, weightUnit kg or lbs.                              *)
IsInteger(x) == IsNumber(x) /\ x.d = <<1>>

Contract(data) ==
    /\ IsInteger(data.age)
    /\ Ge(data.age, Num(1, 1)) /\ Le(data.age, Num(120, 1))
    /\ Positive(data.height)
    /\ Positive(data.weight)
    /\ data.heightUnit \in {"cm", "ft"}
    /\ data.weightUnit \in {"kg", "lbs"}

C3_ValidationContract == \A c \in Ran : Contract(c.data)

----------------------------------------------------------------------------
(* C4: age does not influence the result: whatever run of the computation  *)
(* led here, on either path, the same Measurement with any other valid age *)
(* gives the stored bmi, category, description and color.                  *)
ValidAge(a) == IsNumber(a) /\ Ge(a, Num(1, 1)) /\ Le(a, Num(120, 1))

OtherAges == {a \in TypedAges : ValidAge(a)}

C4_AgeIgnored ==
    \A c \in Ran : \A a \in OtherAges :
        LET other == [c.data EXCEPT !.age = a]
        IN  /\ result = <<onSubmit(other)>>
            /\ result = <<effectResult(other)>>
            /\ effectGuard(other)

C4_Witness ==
    /\ Paths = {"submit", "effect"}
    /\ watchedValues.age = Num(120, 1)
    /\ result = <<effectResult([watchedValues EXCEPT !.age = Num(51, 2)])>>
    /\ Cardinality(OtherAges) >= 2

----------------------------------------------------------------------------
(* C5: live recalculation: a step that changes a form value and leaves     *)
(* age, height and weight present and individually valid replaces the      *)
(* stored result by the computation of the form's current values, run by   *)
(* the effect alone (no submit).                                           *)
FieldsValid(data) ==
    /\ ValidAge(data.age)
    /\ IsNumber(data.height) /\ Positive(data.height)
    /\ IsNumber(data.weight) /\ Positive(data.weight)

C5_LiveRecalculation ==
    [][(watchedValues' # watchedValues /\ FieldsValid(watchedValues'))
          => /\ result' = <<onSubmit(watchedValues')>>
             /\ calls' = <<Call("effect", watchedValues')>>]_vars

C5_Witness ==
    /\ FieldsValid(watchedValues)
    /\ calls = <<Call("effect", watchedValues)>>
    /\ result = <<onSubmit(watchedValues)>>
    /\ watchedValues.heightUnit = "ft"

----------------------------------------------------------------------------
(* C6: missing input is rejected upstream: a step that leaves age, height  *)
(* or weight absent (undefined, or NaN from an empty field) runs no        *)
(* computation and stores no result, be it a change or a submit; and the   *)
(* step in which a result first appears leaves all three present and       *)
(* valid.                                                                  *)
Absent(x) == x.tag \in {"undefined", "NaN"}

AnyAbsent(data) == Absent(data.age) \/ Absent(data.height) \/ Absent(data.weight)

C6_MissingInputRejected ==
    [][/\ AnyAbsent(watchedValues')
           => (calls' = <<>> /\ (result' = result \/ result' = null))
       /\ (result = null /\ result' # null) => FieldsValid(watchedValues')]_vars

\* Age and height are in, the weight field is empty: nothing is stored.
C6_Witness ==
    /\ ValidAge(watchedValues.age)
    /\ IsNumber(watchedValues.height) /\ Positive(watchedValues.height)
    /\ watchedValues.weight = NaN
    /\ result = null
    /\ calls = <<>>

----------------------------------------------------------------------------
(* C7: classification uses the unrounded bmi and only the displayed number *)
(* is rounded: the stored bmi is the exact quotient, the stored category   *)
(* is that of the stored bmi, and a bmi in [24.95, 25) is Normal Weight    *)
(* while it is displayed as 25.0.                                          *)
JustBelow25(bmi) == Ge(bmi, Num(2495, 100)) /\ Lt(bmi, Num(25, 1))

C7_RoundedOnlyAtRender ==
    \A c \in Ran :
        /\ result # null
        /\ IsQuotient(result[1].bmi, c.data)
        /\ InRange(result[1].bmi, result[1].category)
        /\ JustBelow25(result[1].bmi)
              => /\ result[1].category = "Normal Weight"
                 /\ toFixed1(result[1].bmi) = [int |-> 25, frac |-> 0]

C7_Witness ==
    /\ result # null
    /\ Paths = {"submit", "effect"}
    /\ JustBelow25(result[1].bmi)
    /\ result[1].category = "Normal Weight"
    /\ toFixed1(result[1].bmi) = [int |-> 25, frac |-> 0]

----------------------------------------------------------------------------
(* C8: description and color are each bound one-to-one to the category:    *)
(* a stored result and any result of getBMICategory have the same category *)
(* exactly when they have the same description, and exactly when they have *)
(* the same color; and a stored result's description and color are those   *)
(* getBMICategory gives its category.                                      *)
SampleBMIs == {Num(17, 1), Num(22, 1), Num(27, 1), Num(35, 1)}

CategoryInfos == {getBMICategory(b) : b \in SampleBMIs}

C8_OneToOne ==
    result # null =>
        LET r == result[1]
        IN  /\ \A i \in CategoryInfos :
                  /\ (r.category = i.category) <=> (r.description = i.description)
                  /\ (r.category = i.category) <=> (r.color = i.color)
            /\ \E i \in CategoryInfos :
                  /\ r.category = i.category
                  /\ r.description = i.description
                  /\ r.color = i.color

C8_Witness ==
    /\ result # null
    /\ result[1].category = "Overweight"
    /\ result[1].color = "text-yellow-600"
    /\ Cardinality(CategoryInfos) = 4

----------------------------------------------------------------------------
(* C9: the computation has no hidden state: the result a run stores is     *)
(* the one the submit handler and the effect each compute from that run's  *)
(* Measurement alone, whatever was stored or computed before.              *)
C9_NoHiddenState ==
    \A c \in Ran :
        /\ result = <<onSubmit(c.data)>>
        /\ result = <<effectResult(c.data)>>

\* A submit that recomputed, twice over, a result already on display.
C9_Witness ==
    /\ Len(calls) = 2
    /\ calls[1].path = "submit" /\ calls[2].path = "effect"
    /\ calls[1].data = calls[2].data
    /\ result = <<onSubmit(calls[1].data)>>

----------------------------------------------------------------------------
(* C10: unit conversion round-trips: for a positive value v converted,     *)
(* convertHeight(v, cm) * 100, convertHeight(v, ft) / 0.3048 and           *)
(* convertWeight(v, lbs) / 0.453592 return v within a relative tolerance   *)
(* of 10^-9, and convertWeight(v, kg) is v itself.                         *)
Near(x, v) ==
    /\ Le(Mul(x, Num(10^9, 1)), Mul(v, Num(10^9 + 1, 1)))
    /\ Ge(Mul(x, Num(10^9, 1)), Mul(v, Num(10^9 - 1, 1)))

RoundTrips(v) ==
    /\ Near(Mul(convertHeight(v, "cm"), Num(100, 1)), v)
    /\ Near(Div(convertHeight(v, "ft"), Num(3048, 10000)), v)
    /\ Near(Div(convertWeight(v, "lbs"), Num(453592, 1000000)), v)
    /\ convertWeight(v, "kg") = v

C10_RoundTrip ==
    \A c \in Ran : \A v \in {c.data.height, c.data.weight} :
        (IsNumber(v) /\ Positive(v)) => RoundTrips(v)

C10_Witness ==
    /\ watchedValues.height = Num(59, 10)
    /\ watchedValues.heightUnit = "ft"
    /\ watchedValues.weightUnit = "lbs"
    /\ Ran # {}
    /\ RoundTrips(watchedValues.height)
    /\ convertHeight(watchedValues.height, "ft") # watchedValues.height

----------------------------------------------------------------------------
(* C11: in every reachable state a displayed result (result non-null) is   *)
(* the computation of the form's current height, weight and units: no      *)
(* result of earlier values stays on display once the current values       *)
(* differ or are absent or invalid.  (The computation of an absent or      *)
(* non-positive height or weight has no positive bmi, so it is no stored   *)
(* result.)                                                                *)
C11_ResultIsCurrent ==
    result # null =>
        /\ result = <<onSubmit(watchedValues)>>
        /\ Positive(result[1].bmi)

----------------------------------------------------------------------------
(* C12: reset returns the page to its initial state: a resetForm step      *)
(* leaves result null, age, height and weight empty and the units cm and   *)
(* kg, the effect that follows it restores no result, and from then on the *)
(* result stays null until a step leaves a complete valid input.           *)
(* Checked from a page that shows a result (170 cm, 90 kg at age 120), a   *)
(* state the page reaches, so that the empty form is met only after a      *)
(* reset.                                                                  *)
Filled ==
    [age |-> Num(120, 1), height |-> Num(170, 1), weight |-> Num(90, 1),
     heightUnit |-> "cm", weightUnit |-> "kg"]

InitFilled ==
    /\ watchedValues = Filled
    /\ result = <<effectResult(Filled)>>
    /\ calls = <<Call("effect", Filled)>>

SpecFilled == InitFilled /\ [][Next]_vars

Empty(x) == x.tag = "undefined"

C12_ResetToInitial ==
    [][/\ resetForm
           => /\ result' = null
              /\ calls' = <<>>
              /\ Empty(watchedValues'.age)
              /\ Empty(watchedValues'.height)
              /\ Empty(watchedValues'.weight)
              /\ watchedValues'.heightUnit = "cm"
              /\ watchedValues'.weightUnit = "kg"
       /\ (result = null /\ result' # null) => FieldsValid(watchedValues')]_vars

\* The form after a reset: only resetForm empties a field to undefined.
C12_Witness ==
    /\ result = null
    /\ calls = <<>>
    /\ Empty(watchedValues.age)
    /\ Empty(watchedValues.height)
    /\ Empty(watchedValues.weight)
    /\ watchedValues.heightUnit = "cm"
    /\ watchedValues.weightUnit = "kg"

====
